---- MODULE Spec2Model ----
(***************************************************************************)
(* ArchFairFight: the challenge state machine (challenge/state_machine.py) *)
(* and the challenge/fight orchestrator (challenge/manager.py) with the    *)
(* persistence operations it calls (database/operations.py) and the two    *)
(* callback handlers of the front-end (bot/handlers.py).                   *)
(***************************************************************************)
EXTENDS Integers, Sequences, FiniteSets, TLC

VARIABLES
    sm,                 \* a ChallengeStateMachine on its own: [current_state, state_history]
    smCall,             \* the last transition_to call made on sm: pre-state, target, returned value
    db_challenges,      \* challenges collection: challenge id (index) -> Challenge record
    db_fights,          \* fights collection: fight id (index) -> Fight record
    db_users,           \* users collection: telegram id -> statistics counters
    past_expiry,        \* ids of the challenges whose challenge_expires_at lies in the past
    machine,            \* challenge id (index) -> the ChallengeStateMachine object made for it
    stale,              \* ids whose machine's get_time_in_state() exceeds 3 * challenge_timeout
    active_challenges,  \* keys of ChallengeManager._active_challenges (values: machine[id])
    fight_tasks,        \* ChallengeManager._fight_tasks: challenge id -> fight id of its task
    task,               \* fight id (index) -> the monitoring task: position, locals, calls made
    active_recordings,  \* keys of RecordingManager.active_recordings (fight ids)
    ret,                \* the operation that has just returned, with its result
    available_userbots, \* UserbotManager.available_userbots: list of userbots
    active_fights,      \* UserbotManager.active_fights: list of [fight_id, userbot], in
                        \* insertion order
    current_fight_id,   \* started userbot -> UserbotController.current_fight_id
    config              \* self.config: challenge_timeout, max_fight_duration and
                        \* monitoring_interval

smVars == <<sm, smCall>>
poolVars == <<available_userbots, active_fights, current_fight_id>>
mgrVars == <<db_challenges, db_fights, db_users, past_expiry, machine, stale,
             active_challenges, fight_tasks, task, active_recordings, ret, poolVars,
             config>>
vars == <<sm, smCall, db_challenges, db_fights, db_users, past_expiry, machine, stale,
          active_challenges, fight_tasks, task, active_recordings, ret, poolVars, config>>

----------------------------------------------------------------------------
(* challenge/state_machine.py *)

CREATED == "created"
SENT == "sent"
ACCEPTED == "accepted"
DECLINED == "declined"
FIGHT_TYPE_SELECTED == "fight_type_selected"
PARTICIPANTS_JOINING == "participants_joining"
FIGHT_ACTIVE == "fight_active"
FIGHT_FINISHED == "fight_finished"
EXPIRED == "expired"
CANCELLED == "cancelled"

ChallengeState ==
    {CREATED, SENT, ACCEPTED, DECLINED, FIGHT_TYPE_SELECTED, PARTICIPANTS_JOINING,
     FIGHT_ACTIVE, FIGHT_FINISHED, EXPIRED, CANCELLED}

\* Mutant of VALID_TRANSITIONS: an active fight can go back to the joining of the
\* participants.
VALID_TRANSITIONS_ActiveBackToJoining(s) ==
    CASE s = CREATED -> {SENT, CANCELLED}
      [] s = SENT -> {ACCEPTED, DECLINED, EXPIRED, CANCELLED}
      [] s = ACCEPTED -> {FIGHT_TYPE_SELECTED, CANCELLED}
      [] s = FIGHT_TYPE_SELECTED -> {PARTICIPANTS_JOINING, CANCELLED}
      [] s = PARTICIPANTS_JOINING -> {FIGHT_ACTIVE, EXPIRED, CANCELLED}
      [] s = FIGHT_ACTIVE -> {PARTICIPANTS_JOINING, FIGHT_FINISHED, CANCELLED}
      [] OTHER -> {}

\* Mutant of VALID_TRANSITIONS: a declined challenge can be sent again.
VALID_TRANSITIONS_DeclinedReopens(s) ==
    CASE s = CREATED -> {SENT, CANCELLED}
      [] s = SENT -> {ACCEPTED, DECLINED, EXPIRED, CANCELLED}
      [] s = ACCEPTED -> {FIGHT_TYPE_SELECTED, CANCELLED}
      [] s = FIGHT_TYPE_SELECTED -> {PARTICIPANTS_JOINING, CANCELLED}
      [] s = PARTICIPANTS_JOINING -> {FIGHT_ACTIVE, EXPIRED, CANCELLED}
      [] s = FIGHT_ACTIVE -> {FIGHT_FINISHED, CANCELLED}
      [] s = DECLINED -> {SENT}
      [] OTHER -> {}

\* Mutant of VALID_TRANSITIONS: the edge SENT -> EXPIRED is missing and
\* PARTICIPANTS_JOINING -> FIGHT_FINISHED is added.
VALID_TRANSITIONS_NoSentExpired(s) ==
    CASE s = CREATED -> {SENT, CANCELLED}
      [] s = SENT -> {ACCEPTED, DECLINED, CANCELLED}
      [] s = ACCEPTED -> {FIGHT_TYPE_SELECTED, CANCELLED}
      [] s = FIGHT_TYPE_SELECTED -> {PARTICIPANTS_JOINING, CANCELLED}
      [] s = PARTICIPANTS_JOINING -> {FIGHT_ACTIVE, FIGHT_FINISHED, EXPIRED, CANCELLED}
      [] s = FIGHT_ACTIVE -> {FIGHT_FINISHED, CANCELLED}
      [] OTHER -> {}

\* Mutant of VALID_TRANSITIONS: FIGHT_ACTIVE has no edge to CANCELLED.
VALID_TRANSITIONS_NoCancelFromActive(s) ==
    CASE s = CREATED -> {SENT, CANCELLED}
      [] s = SENT -> {ACCEPTED, DECLINED, EXPIRED, CANCELLED}
      [] s = ACCEPTED -> {FIGHT_TYPE_SELECTED, CANCELLED}
      [] s = FIGHT_TYPE_SELECTED -> {PARTICIPANTS_JOINING, CANCELLED}
      [] s = PARTICIPANTS_JOINING -> {FIGHT_ACTIVE, EXPIRED, CANCELLED}
      [] s = FIGHT_ACTIVE -> {FIGHT_FINISHED}
      [] OTHER -> {}

VALID_TRANSITIONS(s) ==
    CASE s = CREATED -> {SENT, CANCELLED}
      [] s = SENT -> {ACCEPTED, DECLINED, EXPIRED, CANCELLED}
      [] s = ACCEPTED -> {FIGHT_TYPE_SELECTED, CANCELLED}
      [] s = FIGHT_TYPE_SELECTED -> {PARTICIPANTS_JOINING, CANCELLED}
      [] s = PARTICIPANTS_JOINING -> {FIGHT_ACTIVE, EXPIRED, CANCELLED}
      [] s = FIGHT_ACTIVE -> {FIGHT_FINISHED, CANCELLED}
      [] s = FIGHT_FINISHED -> {}
      [] s = EXPIRED -> {}
      [] s = DECLINED -> {}
      [] s = CANCELLED -> {}
      [] OTHER -> {}

\* ChallengeStateMachine.__init__
NewStateMachine(initial_state) ==
    [current_state |-> initial_state, state_history |-> <<initial_state>>]

can_transition_to(m, new_state) == new_state \in VALID_TRANSITIONS(m.current_state)

\* Mutant of transition_to: the new state replaces the last entry of the history.
transition_to_OverwritesLast(m, new_state) ==
    IF ~can_transition_to(m, new_state)
    THEN [ok |-> FALSE, sm |-> m]
    ELSE [ok |-> TRUE,
          sm |-> [current_state |-> new_state,
                  state_history |-> [m.state_history EXCEPT ![Len(m.state_history)] = new_state]]]

\* transition_to: the returned value and the machine after the call.
transition_to(m, new_state) ==
    IF ~can_transition_to(m, new_state)
    THEN [ok |-> FALSE, sm |-> m]
    ELSE [ok |-> TRUE,
          sm |-> [current_state |-> new_state,
                  state_history |-> Append(m.state_history, new_state)]]

is_terminal_state(m) == Cardinality(VALID_TRANSITIONS(m.current_state)) = 0

is_active(m) ==
    m.current_state \in {SENT, ACCEPTED, FIGHT_TYPE_SELECTED, PARTICIPANTS_JOINING,
                         FIGHT_ACTIVE}

\* get_state_history: a copy of the list, entry by entry.
get_state_history(m) == [i \in 1 .. Len(m.state_history) |-> m.state_history[i]]

NoCall == [made |-> FALSE]

\* One call sm.transition_to(target).
TransitionTo(target) ==
    LET r == transition_to(sm, target) IN
    /\ sm' = r.sm
    /\ smCall' = [made |-> TRUE, before |-> sm, target |-> target, ok |-> r.ok]
    /\ UNCHANGED mgrVars

\* One call sm.get_state_history(): the caller holds the returned list.
GetStateHistory ==
    /\ ret' = [op |-> "get_state_history", result |-> get_state_history(sm)]
    /\ UNCHANGED <<config, poolVars, sm, smCall, db_challenges, db_fights, db_users,
                   past_expiry, machine, stale, active_challenges, fight_tasks, task,
                   active_recordings>>

\* The caller removes the first entry of the list get_state_history returned; the list
\* is a copy, the machine's own list is another object.
CallerEditsReturnedHistory ==
    /\ ret.op = "get_state_history"
    /\ ret.result # <<>>
    /\ ret' = [ret EXCEPT !.result = Tail(@)]
    /\ UNCHANGED <<config, poolVars, sm, smCall, db_challenges, db_fights, db_users,
                   past_expiry, machine, stale, active_challenges, fight_tasks, task,
                   active_recordings>>

----------------------------------------------------------------------------
(* database/models.py *)

PENDING == "pending"
STATUS_ACCEPTED == "accepted"
STATUS_DECLINED == "declined"
IN_PROGRESS == "in_progress"
COMPLETED == "completed"
STATUS_CANCELLED == "cancelled"
STATUS_EXPIRED == "expired"

ChallengeStatus ==
    {PENDING, STATUS_ACCEPTED, STATUS_DECLINED, IN_PROGRESS, COMPLETED, STATUS_CANCELLED,
     STATUS_EXPIRED}

TIMING == "timing"
VOLUME == "volume"
FightType == {TIMING, VOLUME}

WIN == "win"
LOSS == "loss"
DRAW == "draw"
NO_SHOW == "no_show"
RESULT_CANCELLED == "cancelled"

None == "None"
\* An absent id (winner_id is Optional[int]; a call that returns no id).
NoId == 0

\* Challenge(challenger_id, opponent_id, chat_id, challenge_expires_at): status defaults to
\* PENDING and fight_type to None; the expiry time is carried by past_expiry.
Challenge(challenger_id, opponent_id) ==
    [challenger_id |-> challenger_id, opponent_id |-> opponent_id, status |-> PENDING,
     fight_type |-> None]

ZeroMetrics == [join_time |-> 0, speak_time |-> 0, volume_sum |-> 0]

\* Fight(...) as start_fight builds it: placeholder results WIN / LOSS, no winner,
\* duration 0, empty metrics, no ended_at.
Fight(challenge_id, challenge) ==
    [challenge_id |-> challenge_id,
     participant1_id |-> challenge.challenger_id,
     participant2_id |-> challenge.opponent_id,
     fight_type |-> challenge.fight_type,
     duration |-> 0,
     winner_id |-> NoId,
     participant1_result |-> WIN,
     participant2_result |-> LOSS,
     participant1_metrics |-> <<>>,
     participant2_metrics |-> <<>>,
     ended_at |-> None]

\* User: the statistics counters, all 0 by default.
User == [total_fights |-> 0, wins |-> 0, losses |-> 0, draws |-> 0]

----------------------------------------------------------------------------
(* Bounds of the model *)

\* Challenges created under Spec, and under SpecDriven.
MaxChallenges == 2
MaxDrivenChallenges == 1
\* Fight records created.
MaxFights == 1
\* Fights stored under SpecRestart, where start_fight is called again and again.
MaxRestartFights == 2
\* Further calls of _end_fight_with_results for a fight under SpecFinalize.
MaxReruns == 1
\* Sessions configured for the pool (config.userbot_sessions).
MaxUserbots == 2
\* Fights the pool is asked to monitor when it is driven on its own.
MaxPoolFights == 2
\* max_fight_duration, with monitoring_interval 1: iterations of the sampling loop.
MaxSamples == 2
\* Largest monitoring_interval of the configurations SpecLoop starts from.
MaxInterval == 2
\* Largest duration, speaking time and volume in the metric bags given to the winner
\* determination, and the largest volume_threshold, in thousandths.
MaxDuration == 10
MaxSpeakTime == 4
MaxVolume == 5000
MaxVolumeThreshold == 300

Users == {1, 2}
Userbots == 1 .. MaxUserbots
ChallengeIds == 1 .. MaxChallenges
\* get_fight_metrics returns None (written <<>>) or a bag per participant; the bags the
\* session agents report.
SomeMetrics == [join_time |-> 1, speak_time |-> 1, volume_sum |-> 1]
SampledMetrics == {<<>>, <<ZeroMetrics, ZeroMetrics>>, <<SomeMetrics, ZeroMetrics>>,
                   <<ZeroMetrics, SomeMetrics>>}

----------------------------------------------------------------------------
(* database/operations.py *)

Exists(challenge_id) == challenge_id \in 1 .. Len(db_challenges)

\* ChallengeOps.get_pending_challenges(telegram_id): ids of the PENDING, unexpired
\* challenges whose opponent is telegram_id.
get_pending_challenges(telegram_id) ==
    {c \in 1 .. Len(db_challenges) :
        /\ db_challenges[c].opponent_id = telegram_id
        /\ db_challenges[c].status = PENDING
        /\ c \notin past_expiry}

\* ChallengeOps.update_challenge_status: $set on the matching document, none if absent.
update_challenge_status(db, challenge_id, status) ==
    IF challenge_id \in 1 .. Len(db)
    THEN [db EXCEPT ![challenge_id].status = status]
    ELSE db

\* ChallengeOps.expire_old_challenges: every PENDING challenge past its expiry.
ToExpire == {c \in 1 .. Len(db_challenges) :
                db_challenges[c].status = PENDING /\ c \in past_expiry}

\* Mutant of finish_fight: the second participant's result is not written.
finish_fight_KeepsSecondResult(db, fight_id, winner_id, participant1_result, participant2_result) ==
    [db EXCEPT ![fight_id].winner_id = winner_id,
               ![fight_id].participant1_result = participant1_result,
               ![fight_id].ended_at = "utcnow"]

\* FightOps.finish_fight: winner, both results and ended_at are overwritten.
finish_fight(db, fight_id, winner_id, participant1_result, participant2_result) ==
    [db EXCEPT ![fight_id].winner_id = winner_id,
               ![fight_id].participant1_result = participant1_result,
               ![fight_id].participant2_result = participant2_result,
               ![fight_id].ended_at = "utcnow"]

\* UserOps.update_user_stats(telegram_id, **stats): $inc of the counters named in stats.
update_user_stats(db, telegram_id, stats) ==
    [db EXCEPT ![telegram_id] =
        [k \in DOMAIN @ |-> IF k \in DOMAIN stats THEN @[k] + stats[k] ELSE @[k]]]

----------------------------------------------------------------------------
(* challenge/manager.py: ChallengeManager *)

NoRet == [op |-> "none"]

\* dict.get(key, default)
Get(metrics, key, default) == IF key \in DOMAIN metrics THEN metrics[key] ELSE default

RemoveKey(f, k) == [x \in DOMAIN f \ {k} |-> f[x]]

\* What get_challenge returns: None, or the Challenge read (the fields the routine uses).
NoChallenge == [found |-> FALSE]
Found(challenge) ==
    [found |-> TRUE, challenger_id |-> challenge.challenger_id,
     opponent_id |-> challenge.opponent_id, fight_type |-> challenge.fight_type]

\* A monitoring task just created by asyncio.create_task: not yet run.
NewTask(challenge_id, mgr) ==
    [pc |-> "get_challenge", challenge_id |-> challenge_id, mgr |-> mgr,
     fight_duration |-> 0,
     participant1_metrics |-> ZeroMetrics, participant2_metrics |-> ZeroMetrics,
     challenge |-> NoChallenge, results_challenge |-> NoChallenge, winner_id |-> NoId,
     participant1_result |-> None, participant2_result |-> None,
     path |-> "none", cancelled_at |-> "none",
     stop_recording_calls |-> 0, cleanup_fight_calls |-> 0, finish_fight_calls |-> 0,
     reruns |-> 0, users_at_rerun |-> <<>>,
     winner_determined |-> FALSE, stats_updates |-> <<>>, steps |-> <<>>]

Running(f) == task[f].pc \notin {"done", "cancelled"}

\* The state after construction: empty collections, users registered with zero
\* counters, and a lone machine in its default state.
InitManager ==
    /\ db_challenges = <<>>
    /\ db_fights = <<>>
    /\ db_users = [u \in Users |-> User]
    /\ past_expiry = {}
    /\ machine = <<>>
    /\ stale = {}
    /\ active_challenges = {}
    /\ fight_tasks = <<>>
    /\ task = <<>>
    /\ active_recordings = {}
    /\ ret = NoRet
    /\ available_userbots = <<>>
    /\ active_fights = <<>>
    /\ current_fight_id = <<>>

\* The wait for the participants to join, in seconds (config.challenge_timeout).
ChallengeTimeout == 30

\* The configuration the specifications run with, and the configurations SpecLoop
\* starts from.
DefaultConfig ==
    [challenge_timeout |-> ChallengeTimeout, max_fight_duration |-> MaxSamples,
     monitoring_interval |-> 1]
Configs ==
    [challenge_timeout : {ChallengeTimeout}, max_fight_duration : 0 .. MaxSamples,
     monitoring_interval : 0 .. MaxInterval]

Init ==
    /\ sm = NewStateMachine(CREATED)
    /\ smCall = NoCall
    /\ InitManager
    /\ config = DefaultConfig

\* The state after construction, for any configuration.
InitConfigured ==
    /\ sm = NewStateMachine(CREATED)
    /\ smCall = NoCall
    /\ InitManager
    /\ config \in Configs

\* Mutant of CreateChallenge: the machine is registered as constructed, in CREATED.
CreateChallenge_RegistersCreated(challenger_id, opponent_id, limit) ==
    /\ LET existing == get_pending_challenges(opponent_id)
           duplicate == \E c \in existing : db_challenges[c].challenger_id = challenger_id
           challenge_id == Len(db_challenges) + 1
       IN
       \E stored \in BOOLEAN :
          IF ~duplicate /\ stored
          THEN /\ Len(db_challenges) < limit
               /\ db_challenges' = Append(db_challenges, Challenge(challenger_id, opponent_id))
               /\ machine' = Append(machine, NewStateMachine(CREATED))
               /\ active_challenges' = active_challenges \cup {challenge_id}
               /\ ret' = [op |-> "create_challenge", challenger_id |-> challenger_id,
                          opponent_id |-> opponent_id, result |-> challenge_id]
          ELSE /\ ret' = [op |-> "create_challenge", challenger_id |-> challenger_id,
                          opponent_id |-> opponent_id, result |-> NoId]
               /\ UNCHANGED <<db_challenges, machine, active_challenges>>
    /\ UNCHANGED <<config, poolVars, sm, smCall, db_fights, db_users, past_expiry, stale, fight_tasks, task,
                   active_recordings>>

\* create_challenge(challenger_id, opponent_id, chat_id). stored is the outcome of
\* challenge_ops.create_challenge; limit bounds the number of challenges stored.
CreateChallenge(challenger_id, opponent_id, limit) ==
    /\ LET existing == get_pending_challenges(opponent_id)
           duplicate == \E c \in existing : db_challenges[c].challenger_id = challenger_id
           challenge_id == Len(db_challenges) + 1
       IN
       \E stored \in BOOLEAN :
          IF ~duplicate /\ stored
          THEN /\ Len(db_challenges) < limit
               /\ db_challenges' = Append(db_challenges, Challenge(challenger_id, opponent_id))
               /\ machine' = Append(machine, transition_to(NewStateMachine(CREATED), SENT).sm)
               /\ active_challenges' = active_challenges \cup {challenge_id}
               /\ ret' = [op |-> "create_challenge", challenger_id |-> challenger_id,
                          opponent_id |-> opponent_id, result |-> challenge_id]
          ELSE /\ ret' = [op |-> "create_challenge", challenger_id |-> challenger_id,
                          opponent_id |-> opponent_id, result |-> NoId]
               /\ UNCHANGED <<db_challenges, machine, active_challenges>>
    /\ UNCHANGED <<config, poolVars, sm, smCall, db_fights, db_users, past_expiry, stale, fight_tasks, task,
                   active_recordings>>

\* start_fight(challenge_id). created is the outcome of building the Fight record and of
\* fight_ops.create_fight (the model class validates it, the collection stores it: either
\* can fail); fight_limit bounds the number of fights stored.
StartFight(challenge_id, fight_limit) ==
    /\ \/ /\ ~Exists(challenge_id)
          /\ ret' = [op |-> "start_fight", challenge_id |-> challenge_id, result |-> FALSE,
                     registered |-> challenge_id \in active_challenges,
                     accepted |-> FALSE, fight_id |-> NoId, scheduled |-> FALSE,
                     state_before |-> None]
          /\ UNCHANGED <<machine, stale, db_fights, task, fight_tasks>>
       \/ /\ Exists(challenge_id)
          /\ challenge_id \in active_challenges
          /\ ~transition_to(machine[challenge_id], PARTICIPANTS_JOINING).ok
          /\ ret' = [op |-> "start_fight", challenge_id |-> challenge_id, result |-> FALSE,
                     registered |-> TRUE, accepted |-> FALSE, fight_id |-> NoId,
                     scheduled |-> FALSE,
                     state_before |-> machine[challenge_id].current_state]
          /\ UNCHANGED <<machine, stale, db_fights, task, fight_tasks>>
       \/ /\ Exists(challenge_id)
          /\ challenge_id \in active_challenges =>
                transition_to(machine[challenge_id], PARTICIPANTS_JOINING).ok
          /\ LET registered == challenge_id \in active_challenges
                 fight_id == Len(db_fights) + 1
                 state_before == IF registered THEN machine[challenge_id].current_state
                                 ELSE None
             IN
             /\ IF registered
                THEN /\ machine' = [machine EXCEPT ![challenge_id] =
                                       transition_to(@, PARTICIPANTS_JOINING).sm]
                     /\ stale' = stale \ {challenge_id}
                ELSE UNCHANGED <<machine, stale>>
             /\ \E created \in BOOLEAN :
                   IF created
                   THEN /\ Len(db_fights) < fight_limit
                        /\ db_fights' = Append(db_fights,
                                               Fight(challenge_id, db_challenges[challenge_id]))
                        /\ task' = Append(task, NewTask(challenge_id, "self"))
                        /\ fight_tasks' = (challenge_id :> fight_id) @@ fight_tasks
                        /\ ret' = [op |-> "start_fight", challenge_id |-> challenge_id,
                                   result |-> TRUE, registered |-> registered,
                                   accepted |-> registered, fight_id |-> fight_id,
                                   scheduled |-> TRUE, state_before |-> state_before]
                   ELSE /\ ret' = [op |-> "start_fight", challenge_id |-> challenge_id,
                                   result |-> FALSE, registered |-> registered,
                                   accepted |-> registered, fight_id |-> NoId,
                                   scheduled |-> FALSE, state_before |-> state_before]
                        /\ UNCHANGED <<db_fights, task, fight_tasks>>
    /\ UNCHANGED <<config, poolVars, sm, smCall, db_challenges, db_users, past_expiry, active_challenges,
                   active_recordings>>

\* The table update cancel_challenge and the three endings of the routine make:
\* transition the registered machine, delete the entry whatever transition_to returned.
FinishEntry(challenge_id, new_state) ==
    IF challenge_id \in active_challenges
    THEN /\ machine' = [machine EXCEPT ![challenge_id] = transition_to(@, new_state).sm]
         /\ active_challenges' = active_challenges \ {challenge_id}
         /\ stale' = stale \ {challenge_id}
    ELSE UNCHANGED <<machine, active_challenges, stale>>

\* cancel_challenge(challenge_id): task.cancel() stops a task that has not finished at
\* the await it is suspended in; CancelledError is no Exception, so no handler of the
\* routine runs.
CancelChallenge(challenge_id) ==
    /\ IF challenge_id \in DOMAIN fight_tasks
       THEN LET t == task[fight_tasks[challenge_id]]
            IN  task' = [task EXCEPT ![fight_tasks[challenge_id]] =
                           IF t.pc = "done" THEN t
                           ELSE [t EXCEPT !.pc = "cancelled", !.cancelled_at = t.pc]]
            /\ fight_tasks' = RemoveKey(fight_tasks, challenge_id)
       ELSE UNCHANGED <<task, fight_tasks>>
    /\ db_challenges' = update_challenge_status(db_challenges, challenge_id, STATUS_CANCELLED)
    /\ FinishEntry(challenge_id, CANCELLED)
    /\ ret' = [op |-> "cancel_challenge", challenge_id |-> challenge_id, result |-> TRUE,
               registered |-> challenge_id \in active_challenges,
               state |-> IF challenge_id \in active_challenges
                         THEN machine[challenge_id].current_state ELSE None,
               fight_id |-> IF challenge_id \in DOMAIN fight_tasks
                            THEN fight_tasks[challenge_id] ELSE NoId]
    /\ UNCHANGED <<config, poolVars, sm, smCall, db_fights, db_users, past_expiry, active_recordings>>

\* Mutant of ExpireOldChallenges: an entry is deleted only when its machine accepted
\* the transition to EXPIRED.
ExpireOldChallenges_KeepsRejected ==
    LET expired_challenges == {c \in active_challenges \cap stale :
                                  transition_to(machine[c], EXPIRED).ok} IN
    /\ db_challenges' = [c \in 1 .. Len(db_challenges) |->
                            IF c \in ToExpire
                            THEN [db_challenges[c] EXCEPT !.status = STATUS_EXPIRED]
                            ELSE db_challenges[c]]
    /\ machine' = [c \in 1 .. Len(machine) |->
                      IF c \in expired_challenges
                      THEN transition_to(machine[c], EXPIRED).sm
                      ELSE machine[c]]
    /\ active_challenges' = active_challenges \ expired_challenges
    /\ stale' = stale \ expired_challenges
    /\ ret' = [op |-> "expire_old_challenges", result |-> Cardinality(ToExpire),
               expired_challenges |-> expired_challenges,
               states |-> [c \in expired_challenges |-> machine[c].current_state]]
    /\ UNCHANGED <<config, poolVars, sm, smCall, db_fights, db_users, past_expiry, fight_tasks, task,
                   active_recordings>>

\* expire_old_challenges(): the durable sweep, then the sweep of the active table.
ExpireOldChallenges ==
    LET expired_challenges == active_challenges \cap stale IN
    /\ db_challenges' = [c \in 1 .. Len(db_challenges) |->
                            IF c \in ToExpire
                            THEN [db_challenges[c] EXCEPT !.status = STATUS_EXPIRED]
                            ELSE db_challenges[c]]
    /\ machine' = [c \in 1 .. Len(machine) |->
                      IF c \in expired_challenges
                      THEN transition_to(machine[c], EXPIRED).sm
                      ELSE machine[c]]
    /\ active_challenges' = active_challenges \ expired_challenges
    /\ stale' = stale \ expired_challenges
    /\ ret' = [op |-> "expire_old_challenges", result |-> Cardinality(ToExpire),
               expired_challenges |-> expired_challenges,
               states |-> [c \in expired_challenges |-> machine[c].current_state]]
    /\ UNCHANGED <<config, poolVars, sm, smCall, db_fights, db_users, past_expiry, fight_tasks, task,
                   active_recordings>>

----------------------------------------------------------------------------
(* userbot/manager.py: the pool of the manager's UserbotManager *)

\* release_userbot: appended unless already in the list.
release_userbot(available, userbot) ==
    IF \E i \in 1 .. Len(available) : available[i] = userbot
    THEN available
    ELSE Append(available, userbot)

\* The userbot assigned to fight_id, NoId if none.
AssignedUserbot(fight_id) ==
    IF \E i \in 1 .. Len(active_fights) : active_fights[i].fight_id = fight_id
    THEN active_fights[CHOOSE i \in 1 .. Len(active_fights) :
                          active_fights[i].fight_id = fight_id].userbot
    ELSE NoId

\* cleanup_fight, 121-136: every entry whose userbot is monitoring a fight is stopped
\* (current_fight_id None), released and removed, in the order of the table; the
\* participants given are not looked at.
RECURSIVE cleanup_fight(_, _, _, _)
cleanup_fight(entries, available, current, kept) ==
    IF entries = <<>>
    THEN [available_userbots |-> available, current_fight_id |-> current,
          active_fights |-> kept]
    ELSE LET userbot == Head(entries).userbot IN
         IF current[userbot] # NoId
         THEN cleanup_fight(Tail(entries), release_userbot(available, userbot),
                            [current EXCEPT ![userbot] = NoId], kept)
         ELSE cleanup_fight(Tail(entries), available, current, Append(kept, Head(entries)))

\* initialize(): a controller per configured session, kept when its start() succeeds.
PoolInitialize ==
    /\ DOMAIN current_fight_id = {}
    /\ \E started \in SUBSET Userbots :
          /\ started = 1 .. Cardinality(started)
          /\ available_userbots' = [u \in started |-> u]
          /\ current_fight_id' = [u \in started |-> NoId]
    /\ ret' = NoRet
    /\ UNCHANGED <<config, sm, smCall, db_challenges, db_fights, db_users, past_expiry, machine,
                   stale, active_challenges, fight_tasks, task, active_recordings,
                   active_fights>>

\* get_available_userbot: the first of the list is taken out of it; None when the list
\* is empty.
get_available_userbot(available) ==
    IF available # <<>>
    THEN [userbot |-> Head(available), available_userbots |-> Tail(available)]
    ELSE [userbot |-> NoId, available_userbots |-> available]

\* assign_userbot_to_fight(fight_id, ...), 92-109: the pool after the call and the value
\* returned. joined is what join_voice_chat returns (it catches its own exceptions);
\* the entry of the table for fight_id is set, replacing the one there is.
assign_userbot_to_fight(fight_id, joined) ==
    LET got == get_available_userbot(available_userbots)
        userbot == got.userbot
    IN
    IF userbot = NoId
    THEN [result |-> FALSE, available_userbots |-> available_userbots,
          current_fight_id |-> current_fight_id, active_fights |-> active_fights]
    ELSE IF ~joined
    THEN [result |-> FALSE,
          available_userbots |-> release_userbot(got.available_userbots, userbot),
          current_fight_id |-> current_fight_id, active_fights |-> active_fights]
    ELSE [result |-> TRUE, available_userbots |-> got.available_userbots,
          current_fight_id |-> [current_fight_id EXCEPT ![userbot] = fight_id],
          active_fights |->
              IF AssignedUserbot(fight_id) # NoId
              THEN [i \in 1 .. Len(active_fights) |->
                      IF active_fights[i].fight_id = fight_id
                      THEN [fight_id |-> fight_id, userbot |-> userbot]
                      ELSE active_fights[i]]
              ELSE Append(active_fights, [fight_id |-> fight_id, userbot |-> userbot])]

\* assign_userbot_to_fight(fight_id, ...), for a fight whose routine runs: the first
\* available userbot is taken; it goes back to the list when join_voice_chat fails,
\* otherwise it monitors the fight and the assignment is recorded.
AssignUserbotToFight(fight_id) ==
    /\ fight_id \in 1 .. Len(task)
    /\ task[fight_id].pc \notin {"done", "cancelled"}
    /\ available_userbots # <<>>
    /\ \E joined \in BOOLEAN :
          LET r == assign_userbot_to_fight(fight_id, joined) IN
          /\ available_userbots' = r.available_userbots
          /\ current_fight_id' = r.current_fight_id
          /\ active_fights' = r.active_fights
    /\ ret' = NoRet
    /\ UNCHANGED <<config, sm, smCall, db_challenges, db_fights, db_users, past_expiry, machine,
                   stale, active_challenges, fight_tasks, task, active_recordings>>

\* The UserbotManager on its own: fights are ids, the participants of a fight are a pair
\* that no other fight has.
PoolFightIds == 1 .. MaxPoolFights
Participants(fight_id) == <<2 * fight_id - 1, 2 * fight_id>>

\* The pool as an operation finds it.
PoolState ==
    [available_userbots |-> available_userbots, active_fights |-> active_fights,
     current_fight_id |-> current_fight_id]

\* One call get_available_userbot() by a user of the pool.
PoolGetAvailableUserbot ==
    /\ DOMAIN current_fight_id # {}
    /\ LET got == get_available_userbot(available_userbots) IN
       /\ available_userbots' = got.available_userbots
       /\ ret' = [op |-> "get_available_userbot", result |-> got.userbot,
                  before |-> PoolState]
    /\ UNCHANGED <<config, sm, smCall, db_challenges, db_fights, db_users, past_expiry, machine,
                   stale, active_challenges, fight_tasks, task, active_recordings,
                   active_fights, current_fight_id>>

\* One call release_userbot(userbot), for a started userbot.
PoolReleaseUserbot(userbot) ==
    /\ userbot \in DOMAIN current_fight_id
    /\ available_userbots' = release_userbot(available_userbots, userbot)
    /\ ret' = [op |-> "release_userbot", userbot |-> userbot, before |-> PoolState]
    /\ UNCHANGED <<config, sm, smCall, db_challenges, db_fights, db_users, past_expiry, machine,
                   stale, active_challenges, fight_tasks, task, active_recordings,
                   active_fights, current_fight_id>>

\* One call assign_userbot_to_fight(fight_id, chat_id, participants of fight_id).
PoolAssignUserbotToFight(fight_id) ==
    /\ DOMAIN current_fight_id # {}
    /\ \E joined \in BOOLEAN :
          LET r == assign_userbot_to_fight(fight_id, joined) IN
          /\ available_userbots' = r.available_userbots
          /\ current_fight_id' = r.current_fight_id
          /\ active_fights' = r.active_fights
          /\ ret' = [op |-> "assign_userbot_to_fight", fight_id |-> fight_id,
                     result |-> r.result, before |-> PoolState]
    /\ UNCHANGED <<config, sm, smCall, db_challenges, db_fights, db_users, past_expiry, machine,
                   stale, active_challenges, fight_tasks, task, active_recordings>>

\* One call cleanup_fight(participants of fight_id).
PoolCleanupFight(fight_id) ==
    /\ DOMAIN current_fight_id # {}
    /\ LET r == cleanup_fight(active_fights, available_userbots, current_fight_id, <<>>) IN
       /\ available_userbots' = r.available_userbots
       /\ current_fight_id' = r.current_fight_id
       /\ active_fights' = r.active_fights
    /\ ret' = [op |-> "cleanup_fight", fight_id |-> fight_id,
               participants |-> Participants(fight_id), before |-> PoolState]
    /\ UNCHANGED <<config, sm, smCall, db_challenges, db_fights, db_users, past_expiry, machine,
                   stale, active_challenges, fight_tasks, task, active_recordings>>

----------------------------------------------------------------------------
(* Time *)

\* now passes challenge_expires_at (creation + 2 * challenge_timeout).
DeadlinePasses(challenge_id) ==
    /\ Exists(challenge_id)
    /\ challenge_id \notin past_expiry
    /\ past_expiry' = past_expiry \cup {challenge_id}
    /\ ret' = NoRet
    /\ UNCHANGED <<config, poolVars, sm, smCall, db_challenges, db_fights, db_users, machine, stale,
                   active_challenges, fight_tasks, task, active_recordings>>

\* get_time_in_state() of a registered machine passes 3 * challenge_timeout; the last
\* transition is no older than the challenge, so the expiry has passed by then.
DwellExceeds(challenge_id) ==
    /\ challenge_id \in active_challenges \ stale
    /\ challenge_id \in past_expiry
    /\ stale' = stale \cup {challenge_id}
    /\ ret' = NoRet
    /\ UNCHANGED <<config, poolVars, sm, smCall, db_challenges, db_fights, db_users, past_expiry, machine,
                   active_challenges, fight_tasks, task, active_recordings>>

----------------------------------------------------------------------------
(* bot/handlers.py *)

\* handle_challenge_response, called by the opponent on a PENDING challenge (any other
\* call answers and returns): the durable status alone is updated.
HandleChallengeResponse(challenge_id, accepted) ==
    /\ Exists(challenge_id)
    /\ db_challenges[challenge_id].status = PENDING
    /\ db_challenges' = update_challenge_status(db_challenges, challenge_id,
                            IF accepted THEN STATUS_ACCEPTED ELSE STATUS_DECLINED)
    /\ ret' = NoRet
    /\ UNCHANGED <<config, poolVars, sm, smCall, db_fights, db_users, past_expiry, machine, stale,
                   active_challenges, fight_tasks, task, active_recordings>>

\* handle_fight_type_selection: status IN_PROGRESS with the fight type, then start_fight
\* on a ChallengeManager() made for this call, whose active table is empty: the Fight is
\* created and its task belongs to that manager.
HandleFightTypeSelection(challenge_id, fight_type) ==
    /\ Exists(challenge_id)
    /\ db_challenges' = [update_challenge_status(db_challenges, challenge_id, IN_PROGRESS)
                            EXCEPT ![challenge_id].fight_type = fight_type]
    /\ \E created \in BOOLEAN :
          IF created
          THEN /\ Len(db_fights) < MaxFights
               /\ db_fights' = Append(db_fights,
                                      Fight(challenge_id, db_challenges'[challenge_id]))
               /\ task' = Append(task, NewTask(challenge_id, "handler"))
               /\ ret' = [op |-> "handle_fight_type_selection",
                          challenge_id |-> challenge_id, result |-> TRUE,
                          registered |-> challenge_id \in active_challenges]
          ELSE /\ ret' = [op |-> "handle_fight_type_selection",
                          challenge_id |-> challenge_id, result |-> FALSE,
                          registered |-> challenge_id \in active_challenges]
               /\ UNCHANGED <<db_fights, task>>
    /\ UNCHANGED <<config, poolVars, sm, smCall, db_users, past_expiry, machine, stale, active_challenges,
                   fight_tasks, active_recordings>>

\* The front-end of the data flow "accept via front-end -> state machine ACCEPTED":
\* the opponent accepts a PENDING challenge and its registered machine is driven to
\* ACCEPTED.
FrontEndAccept(challenge_id) ==
    /\ challenge_id \in active_challenges
    /\ db_challenges[challenge_id].status = PENDING
    /\ transition_to(machine[challenge_id], ACCEPTED).ok
    /\ db_challenges' = update_challenge_status(db_challenges, challenge_id, STATUS_ACCEPTED)
    /\ machine' = [machine EXCEPT ![challenge_id] = transition_to(@, ACCEPTED).sm]
    /\ stale' = stale \ {challenge_id}
    /\ ret' = NoRet
    /\ UNCHANGED <<config, poolVars, sm, smCall, db_fights, db_users, past_expiry, active_challenges,
                   fight_tasks, task, active_recordings>>

\* The front-end of "fight-type chosen": the fight type is stored with status
\* IN_PROGRESS and the registered machine is driven to FIGHT_TYPE_SELECTED.
FrontEndSelectFightType(challenge_id, fight_type) ==
    /\ challenge_id \in active_challenges
    /\ transition_to(machine[challenge_id], FIGHT_TYPE_SELECTED).ok
    /\ db_challenges' = [update_challenge_status(db_challenges, challenge_id, IN_PROGRESS)
                            EXCEPT ![challenge_id].fight_type = fight_type]
    /\ machine' = [machine EXCEPT ![challenge_id] = transition_to(@, FIGHT_TYPE_SELECTED).sm]
    /\ stale' = stale \ {challenge_id}
    /\ ret' = NoRet
    /\ UNCHANGED <<config, poolVars, sm, smCall, db_fights, db_users, past_expiry, active_challenges,
                   fight_tasks, task, active_recordings>>

----------------------------------------------------------------------------
(* challenge/manager.py: the monitoring routine, one action per suspension point.
   Each action is the awaited call and the code that follows it up to the next await. *)

AtPc(f, pc) == f \in 1 .. Len(task) /\ task[f].pc = pc

\* _monitor_fight, 119-125: read the challenge; go on only if the id is in the active
\* table of the manager that owns the task.
MonitorStart(f) ==
    /\ AtPc(f, "get_challenge")
    /\ LET challenge_id == task[f].challenge_id IN
       \E found \in BOOLEAN :
          task' = [task EXCEPT ![f] =
                     IF ~found
                     THEN [@ EXCEPT !.pc = "done", !.path = "no_challenge"]
                     ELSE IF @.mgr = "self" /\ challenge_id \in active_challenges
                     THEN [@ EXCEPT !.pc = "join_wait",
                                    !.challenge = Found(db_challenges[challenge_id])]
                     ELSE [@ EXCEPT !.pc = "done", !.path = "skipped"]]
    /\ ret' = NoRet
    /\ UNCHANGED <<config, poolVars, sm, smCall, db_challenges, db_fights, db_users, past_expiry, machine,
                   stale, active_challenges, fight_tasks, active_recordings>>

\* 127-141: the join deadline, check_participants_joined, and on success the transition
\* of the machine held in the local state_machine to FIGHT_ACTIVE.
MonitorJoinWait(f) ==
    /\ AtPc(f, "join_wait")
    /\ LET challenge_id == task[f].challenge_id IN
       \E participants_joined \in BOOLEAN :
          IF ~participants_joined
          THEN /\ task' = [task EXCEPT ![f].pc = "ns_finish_fight"]
               /\ UNCHANGED <<machine, stale>>
          ELSE /\ task' = [task EXCEPT ![f].pc = "start_recording",
                                       ![f].steps = Append(@, "transition FIGHT_ACTIVE")]
               /\ machine' = [machine EXCEPT ![challenge_id] =
                                 transition_to(@, FIGHT_ACTIVE).sm]
               /\ stale' = IF transition_to(machine[challenge_id], FIGHT_ACTIVE).ok
                           THEN stale \ {challenge_id} ELSE stale
    /\ ret' = NoRet
    /\ UNCHANGED <<config, poolVars, sm, smCall, db_challenges, db_fights, db_users, past_expiry,
                   active_challenges, fight_tasks, active_recordings>>

\* _end_fight_no_show, 200-202.
NoShowFinishFight(f) ==
    /\ AtPc(f, "ns_finish_fight")
    /\ db_fights' = finish_fight(db_fights, f, NoId, NO_SHOW, NO_SHOW)
    /\ task' = [task EXCEPT ![f].pc = "ns_update_status", ![f].finish_fight_calls = @ + 1]
    /\ ret' = NoRet
    /\ UNCHANGED <<config, poolVars, sm, smCall, db_challenges, db_users, past_expiry, machine, stale,
                   active_challenges, fight_tasks, active_recordings>>

\* _end_fight_no_show, 205-214.
NoShowUpdateStatus(f) ==
    /\ AtPc(f, "ns_update_status")
    /\ db_challenges' = update_challenge_status(db_challenges, task[f].challenge_id, COMPLETED)
    /\ FinishEntry(task[f].challenge_id, FIGHT_FINISHED)
    /\ task' = [task EXCEPT ![f].pc = "done", ![f].path = "no_show"]
    /\ ret' = [op |-> "no_show", fight_id |-> f]
    /\ UNCHANGED <<config, poolVars, sm, smCall, db_fights, db_users, past_expiry, fight_tasks,
                   active_recordings>>

\* 144-158: start_recording, then the loop's first test.
StartRecording(f) ==
    /\ AtPc(f, "start_recording")
    /\ \E recording_started \in BOOLEAN :
          active_recordings' = IF recording_started THEN active_recordings \cup {f}
                               ELSE active_recordings
    /\ task' = [task EXCEPT ![f].pc = IF 0 < config.max_fight_duration THEN "sample"
                                      ELSE "r_stop_recording",
                            ![f].steps = Append(@, "start_recording")]
    /\ ret' = NoRet
    /\ UNCHANGED <<config, poolVars, sm, smCall, db_challenges, db_fights, db_users, past_expiry, machine,
                   stale, active_challenges, fight_tasks>>

\* The log of steps after an iteration of the sampling loop: the iterations make one
\* entry.
Sampled(steps) ==
    IF steps # <<>> /\ steps[Len(steps)] = "get_fight_metrics" THEN steps
    ELSE Append(steps, "get_fight_metrics")

\* 159-184: one iteration of the sampling loop.
Sample(f) ==
    /\ AtPc(f, "sample")
    /\ \E current_metrics \in SampledMetrics,
          participants_active \in BOOLEAN :
          LET fight_duration == task[f].fight_duration + config.monitoring_interval
              exit == ~participants_active \/ ~(fight_duration < config.max_fight_duration)
              next_pc == IF exit THEN "r_stop_recording" ELSE "sample"
          IN
          IF Len(current_metrics) = 0
          THEN /\ task' = [task EXCEPT ![f].fight_duration = fight_duration,
                                       ![f].pc = next_pc,
                                       ![f].steps = Sampled(@)]
               /\ UNCHANGED db_fights
          ELSE /\ task' = [task EXCEPT ![f].fight_duration = fight_duration,
                                       ![f].participant1_metrics = current_metrics[1],
                                       ![f].participant2_metrics = current_metrics[2],
                                       ![f].pc = next_pc,
                                       ![f].steps = Sampled(@)]
               /\ db_fights' = [db_fights EXCEPT
                                   ![f].participant1_metrics = current_metrics[1],
                                   ![f].participant2_metrics = current_metrics[2]]
    /\ ret' = NoRet
    /\ UNCHANGED <<config, poolVars, sm, smCall, db_challenges, db_users, past_expiry, machine, stale,
                   active_challenges, fight_tasks, active_recordings>>

\* _end_fight_with_results, 227-270: the winner from the fight type and the two metric
\* bags. Reading challenger_id / opponent_id of a challenge that is None raises.
Compare(a, b, challenge) ==
    IF a > b
    THEN IF ~challenge.found
         THEN [raised |-> TRUE]
         ELSE [raised |-> FALSE, winner_id |-> challenge.challenger_id,
               participant1_result |-> WIN, participant2_result |-> LOSS]
    ELSE IF b > a
    THEN IF ~challenge.found
         THEN [raised |-> TRUE]
         ELSE [raised |-> FALSE, winner_id |-> challenge.opponent_id,
               participant1_result |-> LOSS, participant2_result |-> WIN]
    ELSE [raised |-> FALSE, winner_id |-> NoId,
          participant1_result |-> DRAW, participant2_result |-> DRAW]

DetermineResults(fight_type, participant1_metrics, participant2_metrics, challenge) ==
    IF fight_type = TIMING
    THEN Compare(Get(participant1_metrics, "join_time", 0),
                 Get(participant2_metrics, "join_time", 0), challenge)
    ELSE IF fight_type = VOLUME
    THEN Compare(Get(participant1_metrics, "speak_time", 0)
                    * Get(participant1_metrics, "volume_sum", 0),
                 Get(participant2_metrics, "speak_time", 0)
                    * Get(participant2_metrics, "volume_sum", 0),
                 challenge)
    ELSE [raised |-> FALSE, winner_id |-> NoId,
          participant1_result |-> LOSS, participant2_result |-> WIN]

\* 277-286: the keyword arguments of the two update_user_stats calls.
ChallengerStats(participant1_result, participant2_result) ==
    IF participant1_result = WIN THEN [wins |-> 1, total_fights |-> 1]
    ELSE IF participant2_result = WIN THEN [losses |-> 1, total_fights |-> 1]
    ELSE [draws |-> 1, total_fights |-> 1]

\* Mutant of OpponentStats: a loss is counted without the fight.
OpponentStats_LossWithoutFight(participant1_result, participant2_result) ==
    IF participant1_result = WIN THEN [losses |-> 1]
    ELSE IF participant2_result = WIN THEN [wins |-> 1, total_fights |-> 1]
    ELSE [draws |-> 1, total_fights |-> 1]

OpponentStats(participant1_result, participant2_result) ==
    IF participant1_result = WIN THEN [losses |-> 1, total_fights |-> 1]
    ELSE IF participant2_result = WIN THEN [wins |-> 1, total_fights |-> 1]
    ELSE [draws |-> 1, total_fights |-> 1]

\* Mutant of ResultsStopRecording: the recording is stopped after the result is
\* persisted.
ResultsStopRecording_AfterFinishFight(f) ==
    /\ \/ /\ AtPc(f, "r_stop_recording")
          /\ task' = [task EXCEPT ![f].pc = "r_get_challenge"]
       \/ /\ AtPc(f, "r_stats_challenger")
          /\ "stop_recording" \notin {task[f].steps[i] : i \in 1 .. Len(task[f].steps)}
          /\ task' = [task EXCEPT ![f].stop_recording_calls = @ + 1,
                                  ![f].steps = Append(@, "stop_recording")]
    /\ active_recordings' = IF AtPc(f, "r_stop_recording") THEN active_recordings
                            ELSE active_recordings \ {f}
    /\ ret' = NoRet
    /\ UNCHANGED <<config, poolVars, sm, smCall, db_challenges, db_fights, db_users, past_expiry, machine,
                   stale, active_challenges, fight_tasks>>

\* _end_fight_with_results, 225: stop_recording.
ResultsStopRecording(f) ==
    /\ AtPc(f, "r_stop_recording")
    /\ active_recordings' = active_recordings \ {f}
    /\ task' = [task EXCEPT ![f].pc = "r_get_challenge",
                            ![f].stop_recording_calls = @ + 1,
                            ![f].steps = Append(@, "stop_recording")]
    /\ ret' = NoRet
    /\ UNCHANGED <<config, poolVars, sm, smCall, db_challenges, db_fights, db_users, past_expiry, machine,
                   stale, active_challenges, fight_tasks>>

\* 232-270: get_challenge (None when the read fails), then the winner; an exception
\* leads to _end_fight_error.
ResultsGetChallenge(f) ==
    /\ AtPc(f, "r_get_challenge")
    /\ \E found \in BOOLEAN :
          LET challenge == IF found THEN Found(db_challenges[task[f].challenge_id])
                           ELSE NoChallenge
              r == DetermineResults(task[f].challenge.fight_type,
                                    task[f].participant1_metrics,
                                    task[f].participant2_metrics, challenge)
          IN
          task' = [task EXCEPT ![f] =
                     IF r.raised
                     THEN [@ EXCEPT !.pc = "e_finish_fight", !.results_challenge = challenge]
                     ELSE [@ EXCEPT !.pc = "r_finish_fight",
                                    !.results_challenge = challenge,
                                    !.winner_id = r.winner_id,
                                    !.participant1_result = r.participant1_result,
                                    !.participant2_result = r.participant2_result,
                                    !.winner_determined = TRUE,
                                    !.steps = Append(@, "winner")]]
    /\ ret' = NoRet
    /\ UNCHANGED <<config, poolVars, sm, smCall, db_challenges, db_fights, db_users, past_expiry, machine,
                   stale, active_challenges, fight_tasks, active_recordings>>

\* 273-279: finish_fight; the first update_user_stats call then reads
\* challenge.challenger_id, which raises when the challenge is None.
ResultsFinishFight(f) ==
    /\ AtPc(f, "r_finish_fight")
    /\ db_fights' = finish_fight(db_fights, f, task[f].winner_id,
                                 task[f].participant1_result, task[f].participant2_result)
    /\ task' = [task EXCEPT ![f].pc = IF ~task[f].results_challenge.found
                                      THEN "e_finish_fight" ELSE "r_stats_challenger",
                            ![f].finish_fight_calls = @ + 1,
                            ![f].steps = Append(@, "finish_fight")]
    /\ ret' = NoRet
    /\ UNCHANGED <<config, poolVars, sm, smCall, db_challenges, db_users, past_expiry, machine, stale,
                   active_challenges, fight_tasks, active_recordings>>

\* 279 / 282 / 285: update_user_stats for the challenger.
ResultsStatsChallenger(f) ==
    /\ AtPc(f, "r_stats_challenger")
    /\ LET stats == ChallengerStats(task[f].participant1_result, task[f].participant2_result)
           telegram_id == task[f].results_challenge.challenger_id
       IN
       /\ db_users' = update_user_stats(db_users, telegram_id, stats)
       /\ task' = [task EXCEPT ![f].pc = "r_stats_opponent",
                               ![f].stats_updates = Append(@, <<telegram_id, stats>>),
                               ![f].steps = Append(@, "update_user_stats challenger")]
    /\ ret' = NoRet
    /\ UNCHANGED <<config, poolVars, sm, smCall, db_challenges, db_fights, past_expiry, machine, stale,
                   active_challenges, fight_tasks, active_recordings>>

\* 280 / 283 / 286: update_user_stats for the opponent.
ResultsStatsOpponent(f) ==
    /\ AtPc(f, "r_stats_opponent")
    /\ LET stats == OpponentStats(task[f].participant1_result, task[f].participant2_result)
           telegram_id == task[f].results_challenge.opponent_id
       IN
       /\ db_users' = update_user_stats(db_users, telegram_id, stats)
       /\ task' = [task EXCEPT ![f].pc = "r_update_status",
                               ![f].stats_updates = Append(@, <<telegram_id, stats>>),
                               ![f].steps = Append(@, "update_user_stats opponent")]
    /\ ret' = NoRet
    /\ UNCHANGED <<config, poolVars, sm, smCall, db_challenges, db_fights, past_expiry, machine, stale,
                   active_challenges, fight_tasks, active_recordings>>

\* 289-296: challenge COMPLETED, machine to FIGHT_FINISHED, entry deleted.
ResultsUpdateStatus(f) ==
    /\ AtPc(f, "r_update_status")
    /\ db_challenges' = update_challenge_status(db_challenges, task[f].challenge_id, COMPLETED)
    /\ FinishEntry(task[f].challenge_id, FIGHT_FINISHED)
    /\ task' = [task EXCEPT ![f].pc = "r_cleanup_fight",
                            ![f].steps = Append(@, "COMPLETED, transition FIGHT_FINISHED")]
    /\ ret' = NoRet
    /\ UNCHANGED <<config, poolVars, sm, smCall, db_fights, db_users, past_expiry, fight_tasks,
                   active_recordings>>

\* 299-302: cleanup_fight on the manager's pool.
ResultsCleanupFight(f) ==
    /\ AtPc(f, "r_cleanup_fight")
    /\ LET r == cleanup_fight(active_fights, available_userbots, current_fight_id, <<>>) IN
       /\ available_userbots' = r.available_userbots
       /\ current_fight_id' = r.current_fight_id
       /\ active_fights' = r.active_fights
    /\ task' = [task EXCEPT ![f].pc = "done", ![f].path = "results",
                            ![f].cleanup_fight_calls = @ + 1,
                            ![f].steps = Append(@, "cleanup_fight")]
    /\ ret' = [op |-> "results", fight_id |-> f]
    /\ UNCHANGED <<config, sm, smCall, db_challenges, db_fights, db_users, past_expiry, machine,
                   stale, active_challenges, fight_tasks, active_recordings>>

\* _end_fight_with_results called once more for a fight it has already finalized, with
\* the arguments of the first call; users_at_rerun keeps the statistics at the call.
FinalizeAgain(f) ==
    /\ AtPc(f, "done")
    /\ task[f].path = "results"
    /\ task[f].reruns < MaxReruns
    /\ task' = [task EXCEPT ![f].pc = "r_stop_recording", ![f].reruns = @ + 1,
                            ![f].users_at_rerun = db_users]
    /\ ret' = NoRet
    /\ UNCHANGED <<config, poolVars, sm, smCall, db_challenges, db_fights, db_users, past_expiry, machine,
                   stale, active_challenges, fight_tasks, active_recordings>>

\* _end_fight_error, 312-314.
ErrorFinishFight(f) ==
    /\ AtPc(f, "e_finish_fight")
    /\ db_fights' = finish_fight(db_fights, f, NoId, RESULT_CANCELLED, RESULT_CANCELLED)
    /\ task' = [task EXCEPT ![f].pc = "e_update_status", ![f].finish_fight_calls = @ + 1]
    /\ ret' = NoRet
    /\ UNCHANGED <<config, poolVars, sm, smCall, db_challenges, db_users, past_expiry, machine, stale,
                   active_challenges, fight_tasks, active_recordings>>

\* 317-324: challenge CANCELLED, machine to CANCELLED, entry deleted.
ErrorUpdateStatus(f) ==
    /\ AtPc(f, "e_update_status")
    /\ db_challenges' = update_challenge_status(db_challenges, task[f].challenge_id,
                                                STATUS_CANCELLED)
    /\ FinishEntry(task[f].challenge_id, CANCELLED)
    /\ task' = [task EXCEPT ![f].pc = "e_stop_recording"]
    /\ ret' = NoRet
    /\ UNCHANGED <<config, poolVars, sm, smCall, db_fights, db_users, past_expiry, fight_tasks,
                   active_recordings>>

\* 327-329: stop_recording.
ErrorStopRecording(f) ==
    /\ AtPc(f, "e_stop_recording")
    /\ active_recordings' = active_recordings \ {f}
    /\ task' = [task EXCEPT ![f].pc = "done", ![f].path = "error",
                            ![f].stop_recording_calls = @ + 1]
    /\ ret' = [op |-> "error", fight_id |-> f]
    /\ UNCHANGED <<config, poolVars, sm, smCall, db_challenges, db_fights, db_users, past_expiry, machine,
                   stale, active_challenges, fight_tasks>>

----------------------------------------------------------------------------
(* ai/winner_detector.py *)

Abs(x) == IF x < 0 THEN 0 - x ELSE x

\* The draw margin of the timing analysis, line 55.
TimingDrawThreshold == 5

NoWinner == [winner |-> NoId, participant1_result |-> DRAW, participant2_result |-> DRAW]
Winner1 == [winner |-> 1, participant1_result |-> WIN, participant2_result |-> LOSS]
Winner2 == [winner |-> 2, participant1_result |-> LOSS, participant2_result |-> WIN]

\* A value of a bag that is not a number (a string, None), and an argument that is not
\* a dict (None): arithmetic on the first and .get on the second raise.
Malformed == 0 - 1
NotABag == [not_a_dict |-> TRUE]
IsBag(metrics) == "not_a_dict" \notin DOMAIN metrics
Numeric(value) == value # Malformed

Raised == [raised |-> TRUE]
Returned(value) == [raised |-> FALSE, value |-> value]

\* Mutant of analyze_timing_fight_body: a difference equal to the margin is a draw.
analyze_timing_fight_body_DrawAtMargin(p1_metrics, p2_metrics) ==
    IF ~IsBag(p1_metrics) \/ ~IsBag(p2_metrics) THEN Raised
    ELSE LET p1_join_time == Get(p1_metrics, "total_join_time", 0)
             p2_join_time == Get(p2_metrics, "total_join_time", 0)
         IN  IF ~Numeric(p1_join_time) \/ ~Numeric(p2_join_time) THEN Raised
             ELSE IF Abs(p1_join_time - p2_join_time) <= TimingDrawThreshold
             THEN Returned(NoWinner)
             ELSE IF p1_join_time > p2_join_time THEN Returned(Winner1)
             ELSE Returned(Winner2)

\* _analyze_timing_fight, the body of its try, 48-62.
analyze_timing_fight_body(p1_metrics, p2_metrics) ==
    IF ~IsBag(p1_metrics) \/ ~IsBag(p2_metrics) THEN Raised
    ELSE LET p1_join_time == Get(p1_metrics, "total_join_time", 0)
             p2_join_time == Get(p2_metrics, "total_join_time", 0)
         IN  IF ~Numeric(p1_join_time) \/ ~Numeric(p2_join_time) THEN Raised
             ELSE IF Abs(p1_join_time - p2_join_time) < TimingDrawThreshold
             THEN Returned(NoWinner)
             ELSE IF p1_join_time > p2_join_time THEN Returned(Winner1)
             ELSE Returned(Winner2)

\* Mutant of analyze_timing_fight: the handler of line 64 names participant 1.
analyze_timing_fight_HandlerNamesWinner(p1_metrics, p2_metrics) ==
    LET r == analyze_timing_fight_body(p1_metrics, p2_metrics)
    IN  IF r.raised THEN [NoWinner EXCEPT !.winner = 1] ELSE r.value

\* _analyze_timing_fight: an exception of the body yields a draw, 64-66.
analyze_timing_fight(p1_metrics, p2_metrics) ==
    LET r == analyze_timing_fight_body(p1_metrics, p2_metrics)
    IN  IF r.raised THEN NoWinner ELSE r.value

\* _calculate_activity_score, the body of its try, 97-111:
\* speaking_percentage * 0.7 + (average_volume / 10000) * 0.3, as the exact fraction
\* num / den of 100000 times the score. total_join_time > 0 is evaluated first, and
\* speak_time is used only when it holds.
calculate_activity_score_body(metrics) ==
    IF ~IsBag(metrics) THEN Raised
    ELSE LET speak_time == Get(metrics, "speak_time", 0)
             average_volume == Get(metrics, "average_volume", 0)
             total_join_time == Get(metrics, "total_join_time", 1)
         IN  IF ~Numeric(total_join_time) THEN Raised
             ELSE IF total_join_time > 0 /\ ~Numeric(speak_time) THEN Raised
             ELSE IF ~Numeric(average_volume) THEN Raised
             ELSE IF total_join_time > 0
             THEN Returned([num |-> 70000 * speak_time + 3 * average_volume * total_join_time,
                            den |-> total_join_time])
             ELSE Returned([num |-> 3 * average_volume, den |-> 1])

\* _calculate_activity_score: an exception of the body yields 0.0, 113-115.
calculate_activity_score(metrics) ==
    LET r == calculate_activity_score_body(metrics)
    IN  IF r.raised THEN [num |-> 0, den |-> 1] ELSE r.value

\* _analyze_volume_fight; volume_threshold is config.volume_threshold in thousandths.
\* The scores are numbers, so the body of the try does not raise.
analyze_volume_fight(p1_metrics, p2_metrics, volume_threshold) ==
    LET p1_score == calculate_activity_score(p1_metrics)
        p2_score == calculate_activity_score(p2_metrics)
        difference == p1_score.num * p2_score.den - p2_score.num * p1_score.den
    IN  IF Abs(difference) < 100 * volume_threshold * p1_score.den * p2_score.den
        THEN NoWinner
        ELSE IF difference > 0 THEN Winner1
        ELSE Winner2

determine_winner(fight_type, participant1_metrics, participant2_metrics, volume_threshold) ==
    IF fight_type = TIMING
    THEN analyze_timing_fight(participant1_metrics, participant2_metrics)
    ELSE IF fight_type = VOLUME
    THEN analyze_volume_fight(participant1_metrics, participant2_metrics, volume_threshold)
    ELSE NoWinner

\* The metric bags: the empty bag, the bag the sampling loop holds (keys of
\* start_fight_monitoring) and the bag stop_fight_monitoring returns.
Durations == {0, TimingDrawThreshold - 1, MaxDuration}
SpeakTimes == {0, MaxSpeakTime}
Volumes == {0, MaxVolume}
MetricBags ==
    {<<>>}
    \cup [join_time : Durations, speak_time : SpeakTimes, volume_sum : Volumes]
    \cup [join_time : Durations, speak_time : SpeakTimes, volume_sum : Volumes,
          total_join_time : Durations, average_volume : Volumes]
VolumeThresholds == {0, 1, MaxVolumeThreshold}

\* The arguments of determine_winner: dicts that hold any of the three keys it reads,
\* each with a number or a value that is not one, and an argument that is not a dict.
DetectorKeys == {"total_join_time", "speak_time", "average_volume"}
DetectorValues(key) ==
    IF key = "total_join_time" THEN Durations \cup {Malformed}
    ELSE IF key = "speak_time" THEN SpeakTimes \cup {Malformed}
    ELSE Volumes \cup {Malformed}
DetectorBags ==
    {NotABag} \cup
    UNION {{m \in [keys -> Durations \cup SpeakTimes \cup Volumes \cup {Malformed}] :
               \A key \in keys : m[key] \in DetectorValues(key)} : keys \in SUBSET DetectorKeys}
\* Presence durations of the timing analysis.
MaxPresence == 110

\* Winner determination and the result computation of _end_fight_with_results
\* (manager.py 227-286) on the same fight type and metric bags; the challenger is
\* participant 1 and the opponent participant 2.
DetermineWinner(fight_type, participant1_metrics, participant2_metrics, volume_threshold) ==
    LET r == DetermineResults(fight_type, participant1_metrics, participant2_metrics,
                              [found |-> TRUE, challenger_id |-> 1, opponent_id |-> 2])
    IN
    /\ ret' = [op |-> "determine_winner", fight_type |-> fight_type,
               participant1_metrics |-> participant1_metrics,
               participant2_metrics |-> participant2_metrics,
               result |-> determine_winner(fight_type, participant1_metrics,
                                           participant2_metrics, volume_threshold),
               finalized |-> [winner |-> r.winner_id,
                              participant1_result |-> r.participant1_result,
                              participant2_result |-> r.participant2_result],
               challenger_stats |-> ChallengerStats(r.participant1_result,
                                                    r.participant2_result),
               opponent_stats |-> OpponentStats(r.participant1_result,
                                                r.participant2_result)]
    /\ UNCHANGED <<config, poolVars, sm, smCall, db_challenges, db_fights, db_users, past_expiry,
                   machine, stale, active_challenges, fight_tasks, task, active_recordings>>

\* determine_winner on any fight type and any two arguments, with the two activity
\* scores _analyze_volume_fight computes.
WinnerDetectorDetermineWinner(fight_type, participant1_metrics, participant2_metrics, volume_threshold) ==
    /\ ret' = [op |-> "winner_detector", fight_type |-> fight_type,
               participant1_metrics |-> participant1_metrics,
               participant2_metrics |-> participant2_metrics,
               volume_threshold |-> volume_threshold,
               result |-> determine_winner(fight_type, participant1_metrics,
                                           participant2_metrics, volume_threshold),
               participant1_score |-> calculate_activity_score(participant1_metrics),
               participant2_score |-> calculate_activity_score(participant2_metrics)]
    /\ UNCHANGED <<config, poolVars, sm, smCall, db_challenges, db_fights, db_users, past_expiry,
                   machine, stale, active_challenges, fight_tasks, task, active_recordings>>

\* determine_winner for a timing fight with the presence durations dA and dB.
AnalyzeTimingFight(dA, dB) ==
    /\ ret' = [op |-> "analyze_timing_fight", dA |-> dA, dB |-> dB,
               result |-> determine_winner(TIMING, [total_join_time |-> dA],
                                           [total_join_time |-> dB], 0)]
    /\ UNCHANGED <<config, poolVars, sm, smCall, db_challenges, db_fights, db_users, past_expiry,
                   machine, stale, active_challenges, fight_tasks, task, active_recordings>>

----------------------------------------------------------------------------
(* Specifications *)

FightIds == 1 .. MaxFights

ManagerOperations(limit, fight_limit) ==
    \/ \E challenger_id \in Users, opponent_id \in Users :
          challenger_id # opponent_id /\ CreateChallenge(challenger_id, opponent_id, limit)
    \/ \E challenge_id \in ChallengeIds : StartFight(challenge_id, fight_limit)
    \/ \E challenge_id \in ChallengeIds : CancelChallenge(challenge_id)
    \/ ExpireOldChallenges
    \/ \E f \in 1 .. fight_limit : MonitorStart(f)

Time ==
    \/ \E challenge_id \in ChallengeIds : DeadlinePasses(challenge_id)
    \/ \E challenge_id \in ChallengeIds : DwellExceeds(challenge_id)

Handlers ==
    \/ \E challenge_id \in ChallengeIds, accepted \in BOOLEAN :
          HandleChallengeResponse(challenge_id, accepted)
    \/ \E challenge_id \in ChallengeIds, fight_type \in FightType :
          HandleFightTypeSelection(challenge_id, fight_type)

FrontEnd ==
    \/ \E challenge_id \in ChallengeIds : FrontEndAccept(challenge_id)
    \/ \E challenge_id \in ChallengeIds, fight_type \in FightType :
          FrontEndSelectFightType(challenge_id, fight_type)

Routine ==
    \/ \E f \in FightIds : MonitorJoinWait(f)
    \/ \E f \in FightIds : NoShowFinishFight(f)
    \/ \E f \in FightIds : NoShowUpdateStatus(f)
    \/ \E f \in FightIds : StartRecording(f)
    \/ \E f \in FightIds : Sample(f)
    \/ \E f \in FightIds : ResultsStopRecording(f)
    \/ \E f \in FightIds : ResultsGetChallenge(f)
    \/ \E f \in FightIds : ResultsFinishFight(f)
    \/ \E f \in FightIds : ResultsStatsChallenger(f)
    \/ \E f \in FightIds : ResultsStatsOpponent(f)
    \/ \E f \in FightIds : ResultsUpdateStatus(f)
    \/ \E f \in FightIds : ResultsCleanupFight(f)
    \/ \E f \in FightIds : ErrorFinishFight(f)
    \/ \E f \in FightIds : ErrorUpdateStatus(f)
    \/ \E f \in FightIds : ErrorStopRecording(f)

\* The program as it is: the manager's operations and the callback handlers. No code
\* moves a registered machine out of SENT other than to a terminal state.
Next == ManagerOperations(MaxChallenges, MaxFights) \/ Time \/ Handlers

Spec == Init /\ [][Next]_vars

\* The manager with a front-end that drives the registered machines through ACCEPTED and
\* FIGHT_TYPE_SELECTED, so that start_fight schedules a routine that passes line 124.
NextDriven == ManagerOperations(MaxDrivenChallenges, MaxFights) \/ Time \/ FrontEnd \/ Routine

SpecDriven == Init /\ [][NextDriven]_vars

\* The steps of the monitoring routine of fight f.
RoutineOf(f) ==
    \/ MonitorStart(f) \/ MonitorJoinWait(f)
    \/ NoShowFinishFight(f) \/ NoShowUpdateStatus(f)
    \/ StartRecording(f) \/ Sample(f)
    \/ ResultsStopRecording(f) \/ ResultsGetChallenge(f) \/ ResultsFinishFight(f)
    \/ ResultsStatsChallenger(f) \/ ResultsStatsOpponent(f) \/ ResultsUpdateStatus(f)
    \/ ResultsCleanupFight(f)
    \/ ErrorFinishFight(f) \/ ErrorUpdateStatus(f) \/ ErrorStopRecording(f)

\* Scheduling: time passes, the event loop resumes every task that can run, and the
\* background loop calls the sweep every minute.
Fairness ==
    /\ \A challenge_id \in ChallengeIds :
          WF_vars(DeadlinePasses(challenge_id)) /\ WF_vars(DwellExceeds(challenge_id))
    /\ WF_vars(ExpireOldChallenges)
    /\ \A f \in FightIds : WF_vars(RoutineOf(f))

SpecDrivenFair == SpecDriven /\ Fairness

\* The fairly scheduled routine under every configuration of the sampling loop.
NextLoop == ManagerOperations(MaxDrivenChallenges, MaxFights) \/ FrontEnd \/ Routine

SpecLoop == InitConfigured /\ [][NextLoop]_vars /\ \A f \in FightIds : WF_vars(RoutineOf(f))

\* Winner determination and the orchestrator's result computation, applied once to
\* every fight type, the absent one included, and every pair of metric bags.
NextWinner ==
    /\ ret = NoRet
    /\ \/ \E fight_type \in FightType \cup {None}, participant1_metrics \in MetricBags,
             participant2_metrics \in MetricBags, volume_threshold \in VolumeThresholds :
             DetermineWinner(fight_type, participant1_metrics, participant2_metrics,
                             volume_threshold)
       \/ \E fight_type \in FightType \cup {None}, participant1_metrics \in DetectorBags,
             participant2_metrics \in DetectorBags, volume_threshold \in VolumeThresholds :
             WinnerDetectorDetermineWinner(fight_type, participant1_metrics,
                                           participant2_metrics, volume_threshold)
       \/ \E dA \in 0 .. MaxPresence, dB \in 0 .. MaxPresence : AnalyzeTimingFight(dA, dB)

SpecWinner == Init /\ [][NextWinner]_vars

\* SpecDriven with the manager's pool initialized and userbots assigned to the fights
\* in progress.
Pool ==
    \/ PoolInitialize
    \/ \E f \in FightIds : AssignUserbotToFight(f)

NextPool == NextDriven \/ Pool

SpecPool == Init /\ [][NextPool]_vars

\* The UserbotManager on its own, after initialize(): its operations called in any
\* order, for any fight and any started userbot.
NextUserbots ==
    \/ PoolInitialize
    \/ PoolGetAvailableUserbot
    \/ \E userbot \in Userbots : PoolReleaseUserbot(userbot)
    \/ \E fight_id \in PoolFightIds : PoolAssignUserbotToFight(fight_id)
    \/ \E fight_id \in PoolFightIds : PoolCleanupFight(fight_id)

SpecUserbots == Init /\ [][NextUserbots]_vars

\* SpecDriven with the finalization of a fight called a second time.
NextFinalize == NextDriven \/ \E f \in FightIds : FinalizeAgain(f)

SpecFinalize == Init /\ [][NextFinalize]_vars

\* The manager's operations alone, with room for a second fight of the same challenge.
NextRestart == ManagerOperations(MaxDrivenChallenges, MaxRestartFights) \/ Time

SpecRestart == Init /\ [][NextRestart]_vars

\* A ChallengeStateMachine on its own: transition_to called with every target, and the
\* history read and the returned list edited by the caller.
NextSM ==
    \/ \E target \in ChallengeState : TransitionTo(target)
    \/ GetStateHistory
    \/ CallerEditsReturnedHistory

\* The machine is constructed with any initial state (the constructor's parameter).
InitSM ==
    /\ \E initial_state \in ChallengeState : sm = NewStateMachine(initial_state)
    /\ smCall = NoCall
    /\ InitManager
    /\ config = DefaultConfig

SpecSM == InitSM /\ [][NextSM]_vars

----------------------------------------------------------------------------
(* Claims *)

\* The allowed targets as the specification lists them.
AllowedTargets(s) ==
    CASE s = CREATED -> {SENT, CANCELLED}
      [] s = SENT -> {ACCEPTED, DECLINED, EXPIRED, CANCELLED}
      [] s = ACCEPTED -> {FIGHT_TYPE_SELECTED, CANCELLED}
      [] s = FIGHT_TYPE_SELECTED -> {PARTICIPANTS_JOINING, CANCELLED}
      [] s = PARTICIPANTS_JOINING -> {FIGHT_ACTIVE, EXPIRED, CANCELLED}
      [] s = FIGHT_ACTIVE -> {FIGHT_FINISHED, CANCELLED}
      [] s \in {FIGHT_FINISHED, DECLINED, EXPIRED, CANCELLED} -> {}

\* C1: transition_to(T) on a machine in state S returns True exactly when T is an
\* allowed target of S in the listed table, and then the machine is in T with T
\* appended to the history; a rejected call returns False and leaves the current state
\* and the history as they were.
C1_TransitionIffAllowed ==
    smCall.made =>
        /\ smCall.ok <=> smCall.target \in AllowedTargets(smCall.before.current_state)
        /\ smCall.ok =>
              /\ sm.current_state = smCall.target
              /\ sm.state_history = Append(smCall.before.state_history, smCall.target)
        /\ ~smCall.ok => sm = smCall.before

\* C1, witness: after at least one accepted transition, a call from a non-terminal state
\* to a target that is not one of its edges has been rejected.
C1_Witness ==
    /\ smCall.made
    /\ ~smCall.ok
    /\ Len(smCall.before.state_history) > 1
    /\ smCall.before.current_state = PARTICIPANTS_JOINING
    /\ smCall.target = FIGHT_FINISHED
    /\ sm = smCall.before

\* A challenge is active (non-terminal) when its durable status is not terminal or its
\* machine is still registered in a non-terminal state.
NonTerminal(challenge_id) ==
    \/ db_challenges[challenge_id].status \in {PENDING, STATUS_ACCEPTED, IN_PROGRESS}
    \/ /\ challenge_id \in active_challenges
       /\ ~is_terminal_state(machine[challenge_id])

\* C2: at most one active (non-terminal) challenge exists for an ordered pair
\* (challenger, opponent): create_challenge stores no second one while one exists, be it
\* accepted, in progress, or past its durable expiry with its machine still registered.
C2_AtMostOneActivePerPair ==
    \A c1, c2 \in 1 .. Len(db_challenges) :
        /\ c1 # c2
        /\ db_challenges[c1].challenger_id = db_challenges[c2].challenger_id
        /\ db_challenges[c1].opponent_id = db_challenges[c2].opponent_id
        => ~(NonTerminal(c1) /\ NonTerminal(c2))

C4_TypedChallengeReachesParticipantsJoining ==
    /\ ret.op \in {"start_fight", "handle_fight_type_selection"}
    /\ ret.registered
    /\ db_challenges[ret.challenge_id].status = IN_PROGRESS
    /\ db_challenges[ret.challenge_id].fight_type # None
    => machine[ret.challenge_id].current_state = PARTICIPANTS_JOINING

OnNoShowPath(f) ==
    \/ task[f].pc \in {"ns_finish_fight", "ns_update_status"}
    \/ task[f].path = "no_show"
    \/ task[f].cancelled_at \in {"ns_finish_fight", "ns_update_status"}

StatsFor(result) ==
    CASE result = WIN -> [wins |-> 1, total_fights |-> 1]
      [] result = LOSS -> [losses |-> 1, total_fights |-> 1]
      [] result = DRAW -> [draws |-> 1, total_fights |-> 1]

C19_FinalizedResultIsDetermineWinner ==
    ret.op = "determine_winner" /\ ret.fight_type \in FightType => ret.finalized = ret.result

\* C20: for a fight type that is neither TIMING nor VOLUME, determine_winner returns
\* (no winner, DRAW, DRAW), and the finalization records DRAW / DRAW with no winner and
\* increments the draws counter of both participants.
C20_UnknownTypeIsDraw ==
    ret.op = "determine_winner" /\ ret.fight_type \notin {TIMING, VOLUME} =>
        /\ ret.result = NoWinner
        /\ ret.finalized = NoWinner
        /\ ret.challenger_stats = [draws |-> 1, total_fights |-> 1]
        /\ ret.opponent_stats = [draws |-> 1, total_fights |-> 1]

\* C21: for a timing fight with presence durations dA and dB, the result is a draw iff
\* |dA - dB| < 5; otherwise participant 1 wins iff dA > dB and participant 2 wins iff
\* dB > dA. (100, 103) is a draw and (100, 110) a win of participant 2.
C21_TimingResult ==
    ret.op = "analyze_timing_fight" =>
        /\ ret.result = [winner |-> NoId, participant1_result |-> DRAW,
                         participant2_result |-> DRAW]
              <=> Abs(ret.dA - ret.dB) < 5
        /\ Abs(ret.dA - ret.dB) >= 5 =>
              /\ ret.result = [winner |-> 1, participant1_result |-> WIN,
                               participant2_result |-> LOSS] <=> ret.dA > ret.dB
              /\ ret.result = [winner |-> 2, participant1_result |-> LOSS,
                               participant2_result |-> WIN] <=> ret.dB > ret.dA
        /\ ret.dA = 100 /\ ret.dB = 103 => ret.result.winner = NoId
        /\ ret.dA = 100 /\ ret.dB = 110 => ret.result.winner = 2

\* The timing analysis has decided a fight whose durations differ by exactly 5.
C21_Witness ==
    /\ ret.op = "analyze_timing_fight"
    /\ ret.dB - ret.dA = 5
    /\ ret.result.winner = 2

\* C22: for every fight type and every two arguments, malformed ones included,
\* determine_winner returns (1, WIN, LOSS), (2, LOSS, WIN) or (None, DRAW, DRAW).
C22_OneOfThreeTriples ==
    ret.op = "winner_detector" =>
        ret.result \in {[winner |-> 1, participant1_result |-> WIN,
                         participant2_result |-> LOSS],
                        [winner |-> 2, participant1_result |-> LOSS,
                         participant2_result |-> WIN],
                        [winner |-> NoId, participant1_result |-> DRAW,
                         participant2_result |-> DRAW]}

\* determine_winner has returned for a timing fight with an argument that makes the
\* analysis raise.
C22_Witness ==
    /\ ret.op = "winner_detector"
    /\ ret.fight_type = TIMING
    /\ analyze_timing_fight_body(ret.participant1_metrics, ret.participant2_metrics).raised
    /\ ret.result.winner = NoId

\* C23: with the two arguments swapped, determine_winner returns a draw iff it did, and
\* names participant 2 iff it named participant 1, and participant 1 iff it named
\* participant 2.
C23_CommutativeUnderSwap ==
    ret.op = "winner_detector" =>
        LET swapped == determine_winner(ret.fight_type, ret.participant2_metrics,
                                        ret.participant1_metrics, ret.volume_threshold)
        IN  /\ ret.result.winner = NoId <=> swapped.winner = NoId
            /\ ret.result.winner = 1 <=> swapped.winner = 2
            /\ ret.result.winner = 2 <=> swapped.winner = 1

\* C24: a participant whose presence duration (total_join_time) is 0 has activity
\* score 0.
C24_ZeroPresenceZeroScore ==
    ret.op = "winner_detector" /\ IsBag(ret.participant1_metrics)
        /\ Get(ret.participant1_metrics, "total_join_time", 1) = 0 =>
        ret.participant1_score.num = 0

\* The bag in which each absent key the detector reads is present with value 0.
WithZeros(metrics) ==
    [key \in DOMAIN metrics \cup DetectorKeys |-> Get(metrics, key, 0)]

\* C25: determine_winner returns for a bag what it returns for the bag in which every
\* absent key is present with value 0.
C25_MissingMetricIsZero ==
    ret.op = "winner_detector" /\ IsBag(ret.participant1_metrics)
        /\ IsBag(ret.participant2_metrics) =>
        ret.result = determine_winner(ret.fight_type, WithZeros(ret.participant1_metrics),
                                      WithZeros(ret.participant2_metrics),
                                      ret.volume_threshold)

StepOrder ==
    <<"transition FIGHT_ACTIVE", "start_recording", "get_fight_metrics", "stop_recording",
      "winner", "finish_fight", "update_user_stats challenger",
      "update_user_stats opponent", "COMPLETED, transition FIGHT_FINISHED",
      "cleanup_fight">>
Rank(step) == CHOOSE i \in 1 .. Len(StepOrder) : StepOrder[i] = step

TerminalStatus == {COMPLETED, STATUS_CANCELLED, STATUS_EXPIRED, STATUS_DECLINED}

\* C29: no step of cancel_challenge, of the sweep or of a monitoring routine (its
\* finalization and error-finish paths included) changes a durable status that is
\* COMPLETED, CANCELLED, EXPIRED or DECLINED.
C29_TerminalStatusImmutable ==
    [][((\E challenge_id \in ChallengeIds : CancelChallenge(challenge_id))
           \/ ExpireOldChallenges
           \/ \E f \in FightIds : RoutineOf(f))
       => \A c \in 1 .. Len(db_challenges) :
             db_challenges[c].status \in TerminalStatus =>
                db_challenges'[c].status = db_challenges[c].status]_vars

\* C30: a create_challenge that returns an id has registered it in the active table
\* with a machine in SENT whose history is CREATED, SENT; one that returns no id has
\* left the active table, its machines and the stored challenges as they were.
C30_CreateChallengeRegistersSent ==
    [][(\E challenger_id \in Users, opponent_id \in Users :
           challenger_id # opponent_id
              /\ CreateChallenge(challenger_id, opponent_id, MaxChallenges))
       => IF ret'.result # NoId
          THEN /\ ret'.result \notin active_challenges
               /\ active_challenges' = active_challenges \cup {ret'.result}
               /\ machine'[ret'.result] = [current_state |-> SENT,
                                           state_history |-> <<CREATED, SENT>>]
               /\ \A c \in active_challenges : machine'[c] = machine[c]
          ELSE /\ active_challenges' = active_challenges
               /\ machine' = machine
               /\ db_challenges' = db_challenges]_vars

\* create_challenge has returned the id of a challenge it registered.
C30_Witness ==
    /\ ret.op = "create_challenge"
    /\ ret.result # NoId
    /\ ret.result \in active_challenges
    /\ machine[ret.result].current_state = SENT

TerminalStates == {DECLINED, FIGHT_FINISHED, EXPIRED, CANCELLED}

\* C32: is_terminal_state() is true exactly in DECLINED, FIGHT_FINISHED, EXPIRED and
\* CANCELLED, and once the machine is in one of them every transition_to call, for any
\* target, returns False and leaves the current state as it is.
C32_TerminalStatesAbsorb ==
    /\ [](is_terminal_state(sm) <=> sm.current_state \in TerminalStates)
    /\ [][sm.current_state \in TerminalStates =>
             /\ smCall' # smCall => smCall'.made /\ ~smCall'.ok
             /\ sm'.current_state = sm.current_state]_vars

\* C32, witness: a machine that reached a terminal state by an accepted transition has
\* rejected a call.
C32_Witness ==
    /\ smCall.made
    /\ ~smCall.ok
    /\ smCall.before.current_state \in TerminalStates
    /\ Len(smCall.before.state_history) > 1
    /\ sm.current_state = smCall.before.current_state

\* C33: the state history is append-only: a successful transition_to appends exactly
\* one entry, the new state; a rejected one, a read of the history and an edit of the
\* list a read returned leave every entry as it was; the last entry is the current
\* state and each consecutive pair of entries is an edge of the transition table.
C33_HistoryAppendOnly ==
    /\ [](/\ sm.state_history # <<>>
          /\ sm.state_history[Len(sm.state_history)] = sm.current_state
          /\ \A i \in 1 .. Len(sm.state_history) - 1 :
                sm.state_history[i + 1] \in AllowedTargets(sm.state_history[i]))
    /\ [][IF smCall' # smCall /\ smCall'.ok
          THEN sm'.state_history = Append(sm.state_history, smCall'.target)
          ELSE sm'.state_history = sm.state_history]_vars

\* C33, witness: after two accepted transitions a call was rejected, the history was
\* read and the caller removed an entry of the returned list.
C33_Witness ==
    /\ smCall.made
    /\ ~smCall.ok
    /\ Len(sm.state_history) >= 3
    /\ ret.op = "get_state_history"
    /\ Len(ret.result) < Len(sm.state_history)

C36_CleanupLeavesOtherFights ==
    ret.op = "cleanup_fight" =>
        \A i \in 1 .. Len(ret.before.active_fights) :
            LET entry == ret.before.active_fights[i] IN
            /\ entry.fight_id # ret.fight_id
            /\ ret.before.current_fight_id[entry.userbot] = entry.fight_id
            => /\ AssignedUserbot(entry.fight_id) = entry.userbot
               /\ current_fight_id[entry.userbot] = entry.fight_id
               /\ \A j \in 1 .. Len(available_userbots) :
                     available_userbots[j] # entry.userbot

\* How many times a userbot is in the available list, and how many fights it is assigned
\* to in the table.
TimesAvailable(userbot) ==
    Cardinality({i \in 1 .. Len(available_userbots) : available_userbots[i] = userbot})
TimesAssigned(userbot) ==
    Cardinality({i \in 1 .. Len(active_fights) : active_fights[i].userbot = userbot})

\* C37: after any sequence of get_available_userbot, release_userbot,
\* assign_userbot_to_fight and cleanup_fight, every started userbot is in the available
\* list exactly once or assigned to exactly one fight, never both and never neither;
\* get_available_userbot returns None exactly when the available list is empty.
C37_PoolConservation ==
    /\ \A userbot \in DOMAIN current_fight_id :
          TimesAvailable(userbot) + TimesAssigned(userbot) = 1
    /\ ret.op = "get_available_userbot" =>
          (ret.result = NoId <=> ret.before.available_userbots = <<>>)

C40_TransitionGraphAcyclic ==
    sm.state_history[1] = CREATED =>
        /\ Len(sm.state_history) <= 7
        /\ \A i, j \in 1 .. Len(sm.state_history) :
              i # j => sm.state_history[i] # sm.state_history[j]
        /\ (\A target \in ChallengeState : ~transition_to(sm, target).ok)
           => sm.current_state \in TerminalStates

\* C40, witness: a machine started in CREATED has made 6 successful transitions and
\* every call is rejected from now on.
C40_Witness ==
    /\ sm.state_history[1] = CREATED
    /\ Len(sm.state_history) = 7
    /\ sm.current_state = FIGHT_FINISHED
    /\ smCall.made
    /\ ~smCall.ok

====
